---- MODULE Spec2Model ----
(***************************************************************************)
(* Model of convert_to_dwc.py: the conversion of the Station, CPUE and     *)
(* Measurements sheets of Data_sample.xlsx into the three Darwin Core      *)
(* tables (event core, occurrence extension, measurement-or-fact           *)
(* extension).  The script is straight-line code; every section of it is   *)
(* one action and pc is the section the run has reached.                   *)
(*                                                                         *)
(* Cells are tagged records: a text cell, a float64 cell (held in tenths,  *)
(* so 72 is 7.2), numpy's nan, numpy's inf and Python's None.  A data      *)
(* frame is its ordered column list and its rows, each row a function      *)
(* from column name to cell.                                               *)
(***************************************************************************)
EXTENDS Integers, Sequences, FiniteSets, TLC

VARIABLES workbook, pc, error, station_df, cpue_df, measurements_df,
          cruise_event_df, station_events, event_core, occurrence_ext,
          occurrence_combined, measurement_or_fact, outputs

vars == <<workbook, pc, error, station_df, cpue_df, measurements_df,
          cruise_event_df, station_events, event_core, occurrence_ext,
          occurrence_combined, measurement_or_fact, outputs>>

-----------------------------------------------------------------------------
(* Cells and the conversions Python and pandas apply to them.              *)

NaN == [k |-> "nan"]
None == [k |-> "none"]
Inf == [k |-> "inf"]
Txt(s) == [k |-> "str", s |-> s]
Num(t) == [k |-> "num", t |-> t]

\* pd.notna: nan and None are missing, everything else (inf too) is present.
notna(v) == v.k \notin {"nan", "none"}

Abs(t) == IF t < 0 THEN -t ELSE t

\* str() of a float64 held in tenths: 72 is "7.2", 70 is "7.0", -701 is "-70.1".
FloatStr(t) ==
    (IF t < 0 THEN "-" ELSE "") \o ToString(Abs(t) \div 10) \o "." \o ToString(Abs(t) % 10)

\* str(v), f"{v}" and Series.astype(str) of one cell.
Str(v) ==
    CASE v.k = "str" -> v.s
      [] v.k = "num" -> FloatStr(v.t)
      [] v.k = "nan" -> "nan"
      [] v.k = "inf" -> "inf"
      [] v.k = "none" -> "None"

\* int() of a finite float: truncation toward zero.
IntOf(v) == IF v.t < 0 THEN -(Abs(v.t) \div 10) ELSE v.t \div 10

\* str(int(v)).  Python and pandas raise on nan and inf (IntRaises) before the
\* result is used; the C cast underneath would give the least int64.
IntStr(v) == IF v.k = "num" THEN ToString(IntOf(v)) ELSE "-9223372036854775808"

\* Mutant of IntRaises: nan is cast without complaint, only inf raises.
IntRaisesOnInf(v) == v.k = "inf"

\* int() and astype(int) raise on nan and on inf.
IntRaises(v) == v.k # "num"

\* A field of a file written by to_csv(na_rep=''): missing cells are blank.
CsvField(v) == IF notna(v) THEN Str(v) ELSE ""

-----------------------------------------------------------------------------
(* Sequences.                                                              *)

Range(s) == {s[i] : i \in DOMAIN s}

IndexOf(s, x) == CHOOSE i \in DOMAIN s : s[i] = x

RECURSIVE Flatten(_)
Flatten(ss) == IF ss = <<>> THEN <<>> ELSE Head(ss) \o Flatten(Tail(ss))

\* sep.join(parts)
RECURSIVE Join(_, _)
Join(parts, sep) ==
    IF parts = <<>> THEN ""
    ELSE IF Len(parts) = 1 THEN parts[1]
    ELSE parts[1] \o sep \o Join(Tail(parts), sep)

\* The members of s that are not in seen, each once, in order of first appearance.
RECURSIVE Fresh(_, _)
Fresh(s, seen) ==
    IF s = <<>> THEN <<>>
    ELSE IF Head(s) \in seen THEN Fresh(Tail(s), seen)
    ELSE <<Head(s)>> \o Fresh(Tail(s), seen \cup {Head(s)})

-----------------------------------------------------------------------------
(* Data frames.                                                            *)

EmptyFrame == [columns |-> <<>>, rows |-> <<>>]

\* A Python dict literal: its keys in insertion order and its values.
Dict(keys, vals) ==
    [keys |-> keys, get |-> [c \in Range(keys) |-> vals[IndexOf(keys, c)]]]

\* pd.DataFrame(list of dicts): the columns are the keys in order of first
\* appearance, a key a dict lacks is nan in its row.
DataFrame(records) ==
    LET cols == Fresh(Flatten([i \in DOMAIN records |-> records[i].keys]), {})
    IN  [columns |-> cols,
         rows |-> [i \in DOMAIN records |->
                     [c \in Range(cols) |->
                        IF c \in DOMAIN records[i].get THEN records[i].get[c] ELSE NaN]]]

\* Mutant of Concat: join='inner', only the columns both frames have.
ConcatInner(a, b) ==
    LET cols == SelectSeq(a.columns, LAMBDA c : c \in Range(b.columns))
    IN  [columns |-> cols,
         rows |-> [i \in DOMAIN a.rows |-> [c \in Range(cols) |-> a.rows[i][c]]]
                  \o [i \in DOMAIN b.rows |-> [c \in Range(cols) |-> b.rows[i][c]]]]

\* pd.concat([a, b], ignore_index=True): outer join of the columns, a's first and
\* then b's new ones, unsorted; a column a frame lacks is nan in its rows.
Concat(a, b) ==
    LET cols == a.columns \o Fresh(b.columns, Range(a.columns))
        Fill(r) == [c \in Range(cols) |-> IF c \in DOMAIN r THEN r[c] ELSE NaN]
    IN  [columns |-> cols,
         rows |-> [i \in DOMAIN a.rows |-> Fill(a.rows[i])]
                  \o [i \in DOMAIN b.rows |-> Fill(b.rows[i])]]

\* df[name] = values: a new column goes last, an existing one is overwritten.
SetColumn(df, name, values) ==
    [columns |-> IF name \in Range(df.columns) THEN df.columns
                 ELSE Append(df.columns, name),
     rows |-> [i \in DOMAIN df.rows |->
                 [c \in DOMAIN df.rows[i] \cup {name} |->
                    IF c = name THEN values[i] ELSE df.rows[i][c]]]]

\* df[cols]: the listed columns in the listed order.
Select(df, cols) ==
    [columns |-> cols,
     rows |-> [i \in DOMAIN df.rows |-> [c \in Range(cols) |-> df.rows[i][c]]]]

\* df.rename(columns=mapping), mapping a function from old names to new names.
Rename(df, mapping) ==
    LET New(c) == IF c \in DOMAIN mapping THEN mapping[c] ELSE c
        Old(n) == CHOOSE c \in Range(df.columns) : New(c) = n
    IN  [columns |-> [j \in DOMAIN df.columns |-> New(df.columns[j])],
         rows |-> [i \in DOMAIN df.rows |->
                     [n \in {New(c) : c \in Range(df.columns)} |-> df.rows[i][Old(n)]]]]

\* The file df.to_csv(path, index=False, na_rep='') writes.
ToCsv(df) ==
    [header |-> df.columns,
     rows |-> [i \in DOMAIN df.rows |->
                 [j \in DOMAIN df.columns |-> CsvField(df.rows[i][df.columns[j]])]]]

-----------------------------------------------------------------------------
(* Event builder: parent cruise events.                                    *)

Column(df, name) == [i \in DOMAIN df.rows |-> df.rows[i][name]]

\* The values of the type column, in ascending order of Python's str comparison.
TypeOrder == <<"deployment", "recovery">>

StrLt(a, b) == IndexOf(TypeOrder, a) < IndexOf(TypeOrder, b)

\* Order of float64 group keys: inf sorts after every finite value.
NumLt(a, b) ==
    \/ a.k = "num" /\ b.k = "inf"
    \/ a.k = "num" /\ b.k = "num" /\ a.t < b.t

KeyLt(p, q) == NumLt(p[1], q[1]) \/ (p[1] = q[1] /\ StrLt(p[2].s, q[2].s))

RECURSIVE SortKeys(_)
SortKeys(keys) ==
    IF keys = {} THEN <<>>
    ELSE LET m == CHOOSE p \in keys : \A q \in keys \ {p} : KeyLt(p, q)
         IN  <<m>> \o SortKeys(keys \ {m})

\* Mutant of GroupKeys: sort=False, the groups in the order the rows first show them.
GroupKeysUnsorted(df) ==
    LET rows == SelectSeq(df.rows, LAMBDA x : notna(x.cruise_id) /\ notna(x.type))
    IN  Fresh([i \in DOMAIN rows |-> <<rows[i].cruise_id, rows[i].type>>], {})

\* groupby(['cruise_id', 'type']) with its defaults sort=True, dropna=True: the
\* distinct key pairs of the rows whose two keys are both present, ascending.
GroupKeys(df) ==
    SortKeys({<<r.cruise_id, r.type>> :
                 r \in {x \in Range(df.rows) : notna(x.cruise_id) /\ notna(x.type)}})

\* The 'first' aggregation: the first present value of the group, else nan.
First(vals) ==
    IF \E i \in DOMAIN vals : notna(vals[i])
    THEN vals[CHOOSE i \in DOMAIN vals : notna(vals[i]) /\ \A j \in 1..(i - 1) : ~notna(vals[j])]
    ELSE NaN

\* cruise_types: one row per group, the coordinate columns aggregated to the lists
\* of the member rows' values in row order.
CruiseTypes(df) ==
    LET keys == GroupKeys(df)
        Members(key) == SelectSeq(df.rows, LAMBDA r : <<r.cruise_id, r.type>> = key)
        List(key, c) == [i \in DOMAIN Members(key) |-> Members(key)[i][c]]
    IN  [g \in DOMAIN keys |->
           [cruise_id |-> keys[g][1], type |-> keys[g][2],
            lon_start |-> List(keys[g], "lon_start"),
            lat_start |-> List(keys[g], "lat_start"),
            lon_end |-> List(keys[g], "lon_end"),
            lat_end |-> List(keys[g], "lat_end"),
            datetime |-> First(List(keys[g], "datetime"))]]

\* Mutant of ValidPair: one present ordinate is enough.
ValidPairEither(lon, lat) == notna(lon) \/ notna(lat)

\* Whether the loop appends the pair (lon, lat) to coords.
ValidPair(lon, lat) == notna(lon) /\ notna(lat)

\* coords of one cruise_types row: per member station its start pair, then its end pair.
Coords(row) ==
    Flatten([i \in DOMAIN row.lon_start |->
               (IF ValidPair(row.lon_start[i], row.lat_start[i])
                THEN <<Str(row.lon_start[i]) \o " " \o Str(row.lat_start[i])>> ELSE <<>>)
               \o (IF ValidPair(row.lon_end[i], row.lat_end[i])
                   THEN <<Str(row.lon_end[i]) \o " " \o Str(row.lat_end[i])>> ELSE <<>>)])

footprint(coords) ==
    IF coords # <<>> THEN Txt("LINESTRING (" \o Join(coords, ", ") \o ")") ELSE None

\* f"{int(cruise_id)}_{type}"
CruiseEventID(cruise_id, type) == IntStr(cruise_id) \o "_" \o Str(type)

CruiseEvent(row) ==
    Dict(<<"eventID", "eventDate", "eventType", "parentEventID", "footprintWKT">>,
         <<Txt(CruiseEventID(row.cruise_id, row.type)), row.datetime,
           Txt(Str(row.type) \o " cruise"), None, footprint(Coords(row))>>)

\* Lines 30-59.  int(row['cruise_id']) raises OverflowError on an inf group key.
BuildCruiseEvents ==
    /\ pc = "cruise"
    /\ LET cruise_types == CruiseTypes(station_df)
       IN  \/ /\ \A g \in DOMAIN cruise_types : ~IntRaises(cruise_types[g].cruise_id)
              /\ cruise_event_df' =
                    DataFrame([g \in DOMAIN cruise_types |-> CruiseEvent(cruise_types[g])])
              /\ pc' = "station"
              /\ UNCHANGED error
           \/ /\ \E g \in DOMAIN cruise_types : IntRaises(cruise_types[g].cruise_id)
              /\ pc' = "failed"
              /\ error' = "OverflowError"
              /\ UNCHANGED cruise_event_df
    /\ UNCHANGED <<workbook, station_df, cpue_df, measurements_df, station_events,
                   event_core, occurrence_ext, occurrence_combined,
                   measurement_or_fact, outputs>>

-----------------------------------------------------------------------------
(* Event builder: station events and the event core.                       *)

\* Element-wise + of two object cells: a missing operand gives nan.
StrAdd(a, b) == IF notna(a) /\ notna(b) THEN Txt(Str(a) \o Str(b)) ELSE NaN

\* cruise_id.astype(int).astype(str) + '_' + type, for one row.
ParentEventID(row) == StrAdd(Txt(IntStr(row.cruise_id) \o "_"), row.type)

StationRename ==
    [station |-> "eventID", datetime |-> "eventDate", type |-> "eventType",
     lat_start |-> "decimalLatitude", lon_start |-> "decimalLongitude",
     depth |-> "minimumDepthInMeters", notes |-> "eventRemarks",
     participants |-> "recordedBy"]

StationEventColumns ==
    <<"eventID", "locationID", "parentEventID", "eventDate", "eventType",
      "decimalLatitude", "decimalLongitude", "minimumDepthInMeters",
      "maximumDepthInMeters", "eventRemarks", "recordedBy">>

StationEvents(df) ==
    LET a == SetColumn(df, "parentEventID",
                       [i \in DOMAIN df.rows |-> ParentEventID(df.rows[i])])
        b == Rename(a, StationRename)
        c == SetColumn(b, "locationID", Column(b, "eventID"))
        d == SetColumn(c, "maximumDepthInMeters", Column(c, "minimumDepthInMeters"))
    IN  Select(d, StationEventColumns)

\* Lines 69-101.  astype(int) raises on a column holding nan or inf.
BuildStationEvents ==
    /\ pc = "station"
    /\ \/ /\ \A i \in DOMAIN station_df.rows : ~IntRaises(station_df.rows[i].cruise_id)
          /\ station_events' = StationEvents(station_df)
          /\ event_core' = Concat(cruise_event_df, station_events')
          /\ pc' = "cpue_occ"
          /\ UNCHANGED error
       \/ /\ \E i \in DOMAIN station_df.rows : IntRaises(station_df.rows[i].cruise_id)
          /\ pc' = "failed"
          /\ error' = "IntCastingNaNError"
          /\ UNCHANGED <<station_events, event_core>>
    /\ UNCHANGED <<workbook, station_df, cpue_df, measurements_df, cruise_event_df,
                   occurrence_ext, occurrence_combined, measurement_or_fact, outputs>>

-----------------------------------------------------------------------------
(* Occurrence builder.                                                     *)

\* Station + '_' + Pot_ID + '_' + Species + '_' + (index + 1), each astype(str).
CpueOccurrenceID(row, i) ==
    Txt(Str(row.Station) \o "_" \o Str(row.Pot_ID) \o "_" \o Str(row.Species)
        \o "_" \o ToString(i))

CpueRename ==
    [Station |-> "eventID", Species |-> "vernacularName", Catch |-> "individualCount",
     Notes |-> "occurrenceRemarks"]

\* Lines 111-125.  The occurrenceID column is added to cpue_df itself.
BuildCpueOccurrences ==
    /\ pc = "cpue_occ"
    /\ cpue_df' = SetColumn(cpue_df, "occurrenceID",
                            [i \in DOMAIN cpue_df.rows |->
                               CpueOccurrenceID(cpue_df.rows[i], i)])
    /\ occurrence_ext' =
          SetColumn(Rename(Select(cpue_df', <<"occurrenceID", "Station", "Species",
                                             "Catch", "Notes">>), CpueRename),
                    "basisOfRecord",
                    [i \in DOMAIN cpue_df.rows |-> Txt("HumanObservation")])
    /\ pc' = "meas_occ"
    /\ UNCHANGED <<workbook, error, station_df, measurements_df, cruise_event_df,
                   station_events, event_core, occurrence_combined,
                   measurement_or_fact, outputs>>

\* 'MEAS_' + Station + '_' + Species + '_' + (index + 1), each astype(str).
MeasOccurrenceID(row, i) ==
    Txt("MEAS_" \o Str(row.Station) \o "_" \o Str(row.Species) \o "_" \o ToString(i))

\* Mutant of combine_remarks: the result passed through str().
combine_remarks_str(row) ==
    LET parts == (IF notna(row.Barotrauma)
                  THEN <<"Barotrauma: " \o Str(row.Barotrauma)>> ELSE <<>>)
                 \o (IF notna(row.Notes) THEN <<Str(row.Notes)>> ELSE <<>>)
    IN  Txt(Str(IF parts # <<>> THEN Txt(Join(parts, "; ")) ELSE None))

combine_remarks(row) ==
    LET parts == (IF notna(row.Barotrauma)
                  THEN <<"Barotrauma: " \o Str(row.Barotrauma)>> ELSE <<>>)
                 \o (IF notna(row.Notes) THEN <<Str(row.Notes)>> ELSE <<>>)
    IN  IF parts # <<>> THEN Txt(Join(parts, "; ")) ELSE None

MeasRename ==
    [Station |-> "eventID", Species |-> "vernacularName", Sex |-> "sex",
     combined_remarks |-> "occurrenceRemarks"]

\* Lines 134-165.  occurrenceID and combined_remarks are added to measurements_df.
BuildMeasurementOccurrences ==
    /\ pc = "meas_occ"
    /\ LET a == SetColumn(measurements_df, "occurrenceID",
                          [i \in DOMAIN measurements_df.rows |->
                             MeasOccurrenceID(measurements_df.rows[i], i)])
           measurement_occurrences ==
               SetColumn(Rename(Select(measurements_df',
                                       <<"occurrenceID", "Station", "Species", "Sex",
                                         "combined_remarks">>), MeasRename),
                         "basisOfRecord",
                         [i \in DOMAIN measurements_df.rows |-> Txt("HumanObservation")])
       IN  /\ measurements_df' =
                 SetColumn(a, "combined_remarks",
                           [i \in DOMAIN a.rows |-> combine_remarks(a.rows[i])])
           /\ occurrence_combined' = Concat(occurrence_ext, measurement_occurrences)
    /\ pc' = "mof"
    /\ UNCHANGED <<workbook, error, station_df, cpue_df, cruise_event_df,
                   station_events, event_core, occurrence_ext, measurement_or_fact,
                   outputs>>

-----------------------------------------------------------------------------
(* Measurement extractor.                                                  *)

\* One appended dict.  The measurementUnitID key exists only where the code gives it.
Fact(link, subject, type, value, unit, unitID) ==
    IF unitID # ""
    THEN Dict(<<link, "measurementType", "measurementValue", "measurementUnit",
                "measurementUnitID">>,
              <<subject, Txt(type), Txt(value), Txt(unit), Txt(unitID)>>)
    ELSE Dict(<<link, "measurementType", "measurementValue", "measurementUnit">>,
              <<subject, Txt(type), Txt(value), Txt(unit)>>)

\* The fields each loop tests, in the order it tests them.
OrganismFields ==
    <<[col |-> "TL_mm", type |-> "total length", unit |-> "mm",
       unitID |-> "http://qudt.org/vocab/unit/MilliM"],
      [col |-> "Wt_g_recorded", type |-> "weight (recorded)", unit |-> "g",
       unitID |-> "http://qudt.org/vocab/unit/GM"],
      [col |-> "scale_tare_g", type |-> "scale tare weight", unit |-> "g",
       unitID |-> "http://qudt.org/vocab/unit/GM"],
      [col |-> "Wt_g", type |-> "weight", unit |-> "g",
       unitID |-> "http://qudt.org/vocab/unit/GM"],
      [col |-> "Retained", type |-> "retained", unit |-> "", unitID |-> ""]>>

StationFields ==
    <<[col |-> "wind_speed", type |-> "wind speed", unit |-> "kn",
       unitID |-> "http://qudt.org/vocab/unit/KN"],
      [col |-> "wind_dir", type |-> "wind direction", unit |-> "", unitID |-> ""],
      [col |-> "wave_height", type |-> "wave height", unit |-> "", unitID |-> ""],
      [col |-> "cloud_cover_10th", type |-> "cloud cover", unit |-> "tenths",
       unitID |-> ""],
      [col |-> "ropeless_id", type |-> "ropeless gear ID", unit |-> "", unitID |-> ""],
      [col |-> "cruise_id", type |-> "cruise ID", unit |-> "", unitID |-> ""]>>

GearFields ==
    <<[col |-> "Pot_position", type |-> "pot position", unit |-> "", unitID |-> ""],
      [col |-> "Pot_ID", type |-> "pot ID", unit |-> "", unitID |-> ""],
      [col |-> "Near_Far", type |-> "distance category", unit |-> "", unitID |-> ""]>>

DistanceFields ==
    <<[col |-> "Near/Far", type |-> "distance category", unit |-> "", unitID |-> ""]>>

\* Mutant of Present: the tests nested, each field inside the test of TL_mm.
PresentNested(row, col) ==
    notna(row[col]) /\ ("TL_mm" \in DOMAIN row => notna(row.TL_mm))

\* The test that guards each append.
Present(row, col) == notna(row[col])

\* measurementValue: str(value), and str(int(value)) for cruise_id.
FactValue(row, col) == IF col = "cruise_id" THEN IntStr(row[col]) ELSE Str(row[col])

\* The dicts one pass of a loop body appends for one row.
RowFacts(row, link, subject, fields) ==
    Flatten([f \in DOMAIN fields |->
               IF Present(row, fields[f].col)
               THEN <<Fact(link, subject, fields[f].type, FactValue(row, fields[f].col),
                           fields[f].unit, fields[f].unitID)>>
               ELSE <<>>])

\* The dicts a loop appends: its rows in order.
LoopFacts(df, link, subjectColumn, fields) ==
    Flatten([i \in DOMAIN df.rows |->
               RowFacts(df.rows[i], link, df.rows[i][subjectColumn], fields)])

measurement_records ==
    LoopFacts(measurements_df, "occurrenceID", "occurrenceID", OrganismFields)
    \o LoopFacts(station_df, "eventID", "station", StationFields)
    \o LoopFacts(cpue_df, "eventID", "Station", GearFields)
    \o LoopFacts(measurements_df, "eventID", "Station", DistanceFields)

\* Lines 173-330.  int(row['cruise_id']) cannot raise here: a run with a nan or inf
\* cruise_id has failed in the event builder.
ExtractMeasurements ==
    /\ pc = "mof"
    /\ measurement_or_fact' = DataFrame(measurement_records)
    /\ pc' = "write_event"
    /\ UNCHANGED <<workbook, error, station_df, cpue_df, measurements_df,
                   cruise_event_df, station_events, event_core, occurrence_ext,
                   occurrence_combined, outputs>>

-----------------------------------------------------------------------------
(* Output.  Each to_csv opens its path and writes; either can raise OSError  *)
(* (no outputs directory, a path that is a directory, a full disk), which   *)
(* nothing catches: the run ends there and earlier files stay written.      *)

EventFile == "outputs/py_dwc_event.csv"
OccurrenceFile == "outputs/py_dwc_occurrence.csv"
MeasurementFile == "outputs/py_dwc_measurementorfact.csv"

\* One to_csv statement: the file written and the next statement reached, or the
\* exception raised.
WriteCsv(at, path, df, next) ==
    /\ pc = at
    /\ \/ /\ outputs' = (path :> ToCsv(df)) @@ outputs
          /\ pc' = next
          /\ UNCHANGED error
       \/ /\ pc' = "failed"
          /\ error' = "OSError"
          /\ UNCHANGED outputs
    /\ UNCHANGED <<workbook, station_df, cpue_df, measurements_df, cruise_event_df,
                   station_events, event_core, occurrence_ext, occurrence_combined,
                   measurement_or_fact>>

\* Line 338.
WriteEvent == WriteCsv("write_event", EventFile, event_core, "write_occ")

\* Line 339.
WriteOccurrence == WriteCsv("write_occ", OccurrenceFile, occurrence_combined, "write_mof")

\* Line 340.
WriteMeasurementOrFact == WriteCsv("write_mof", MeasurementFile, measurement_or_fact, "done")

-----------------------------------------------------------------------------
(* The workbook the run reads, drawn from bounded families of sheets.      *)

StationColumns ==
    <<"station", "cruise_id", "type", "datetime", "lat_start", "lon_start", "lat_end",
      "lon_end", "depth", "notes", "participants", "wind_speed", "wind_dir",
      "wave_height", "cloud_cover_10th", "ropeless_id">>

CpueColumns ==
    <<"Station", "Pot_ID", "Pot_position", "Near_Far", "Species", "Catch", "Notes">>

MeasurementsColumns ==
    <<"Station", "Near/Far", "Species", "Sex", "TL_mm", "Wt_g_recorded", "scale_tare_g",
      "Wt_g", "Retained", "Barotrauma", "Notes">>

\* Most rows of each sheet per family of workbooks.
MaxStations == 2
MaxTracks == 2
MaxCatches == 1
MaxMeasurements == 1
MaxReadings == 1

SeqsUpTo(S, n) == UNION {[1..k -> S] : k \in 0..n}

Sheet(columns, rows) == [columns |-> columns, rows |-> rows]

Station1 ==
    [station |-> Txt("S1"), cruise_id |-> Num(70), type |-> Txt("deployment"),
     datetime |-> Txt("2023-05-01"), lat_start |-> Num(415), lon_start |-> Num(-701),
     lat_end |-> NaN, lon_end |-> NaN, depth |-> Num(300), notes |-> NaN,
     participants |-> Txt("AB"), wind_speed |-> Num(50), wind_dir |-> Txt("NE"),
     wave_height |-> NaN, cloud_cover_10th |-> NaN, ropeless_id |-> NaN]

Catch1 ==
    [Station |-> Txt("S1"), Pot_ID |-> Txt("P1"), Pot_position |-> Num(10),
     Near_Far |-> Txt("near"), Species |-> Txt("cod"), Catch |-> Num(30), Notes |-> NaN]

Measurement1 ==
    ("Near/Far" :> Txt("far")) @@
    [Station |-> Txt("S1"), Species |-> Txt("cod"), Sex |-> Txt("F"), TL_mm |-> Num(4200),
     Wt_g_recorded |-> Num(9000), scale_tare_g |-> NaN, Wt_g |-> NaN,
     Retained |-> Txt("Y"), Barotrauma |-> NaN, Notes |-> NaN]

Missing(text) == {NaN, Txt(text)}

\* Station rows that differ in their group keys, and a row with an inf cruise_id.
GroupRows ==
    {[Station1 EXCEPT !.cruise_id = c, !.type = t] :
        c \in {Num(72), Num(78), Num(80), NaN}, t \in {Txt("deployment"), Txt("recovery"), NaN}}
    \cup {[Station1 EXCEPT !.cruise_id = Inf]}

\* Station rows that differ in which ordinates of their start and end are missing.
TrackRows ==
    {[Station1 EXCEPT !.cruise_id = c, !.lon_start = a, !.lon_end = d, !.lat_end = e] :
        c \in {Num(70), Num(80)}, a \in {NaN, Num(-701)}, d \in {NaN, Num(-699)},
        e \in {NaN, Num(420)}}

\* Station rows that differ in which readings are missing, and rows with no
\* station code.
ReadingRows ==
    {[Station1 EXCEPT !.wind_speed = a, !.wind_dir = b, !.wave_height = c,
                      !.cloud_cover_10th = d, !.ropeless_id = e] :
        a \in {NaN, Num(50)}, b \in Missing("NE"), c \in {NaN, Num(12)},
        d \in {NaN, Num(30)}, e \in Missing("R7")}
    \cup {[Station1 EXCEPT !.station = NaN, !.wind_speed = a] : a \in {NaN, Num(50)}}

\* Catch rows that differ in the parts of their identifier.
CatchRows ==
    {[Catch1 EXCEPT !.Station = s, !.Pot_ID = p] :
        s \in {Txt("S1"), Txt("MEAS")}, p \in {Txt("S1"), Txt("P1")}}

\* Catch rows that differ in which gear fields are missing.
GearRows ==
    {[Catch1 EXCEPT !.Station = s, !.Pot_position = a, !.Pot_ID = b, !.Near_Far = c] :
        s \in Missing("S1"), a \in {NaN, Num(10)}, b \in Missing("P1"), c \in Missing("near")}

\* Measurement rows that differ in their station and their remarks.
RemarkRows ==
    {[Measurement1 EXCEPT !.Station = s, !.Barotrauma = b, !.Notes = n] :
        s \in Missing("S1"), b \in Missing("severe"), n \in Missing("released")}

\* Measurement rows that differ in which measured fields are missing.
OrganismRows ==
    {[Measurement1 EXCEPT !.TL_mm = a, !.Wt_g_recorded = b, !.scale_tare_g = c,
                          !.Wt_g = d, !.Retained = e] :
        a \in {NaN, Num(4200)}, b \in {NaN, Num(9000)}, c \in {NaN, Num(150)},
        d \in {NaN, Num(8850)}, e \in Missing("Y")}
    \cup {[Measurement1 EXCEPT !["Near/Far"] = NaN, !.TL_mm = a] : a \in {NaN, Num(4200)}}

Book(stations, catches, measurements) ==
    [Station |-> Sheet(StationColumns, stations), CPUE |-> Sheet(CpueColumns, catches),
     Measurements |-> Sheet(MeasurementsColumns, measurements)]

Workbooks ==
    {Book(s, <<Catch1>>, <<Measurement1>>) :
        s \in SeqsUpTo(GroupRows, MaxStations) \cup SeqsUpTo(TrackRows, MaxTracks)
              \cup SeqsUpTo(ReadingRows, MaxReadings)}
    \cup {Book(<<Station1>>, c, m) :
             c \in SeqsUpTo(CatchRows, MaxCatches),
             m \in SeqsUpTo(RemarkRows, MaxMeasurements)}
    \cup {Book(<<Station1>>, c, <<Measurement1>>) : c \in SeqsUpTo(GearRows, MaxReadings)}
    \cup {Book(<<Station1>>, <<Catch1>>, m) : m \in SeqsUpTo(OrganismRows, MaxReadings)}

-----------------------------------------------------------------------------
(* The run.                                                                *)

Init ==
    /\ workbook \in Workbooks
    /\ pc = "read"
    /\ error = "none"
    /\ station_df = EmptyFrame
    /\ cpue_df = EmptyFrame
    /\ measurements_df = EmptyFrame
    /\ cruise_event_df = EmptyFrame
    /\ station_events = EmptyFrame
    /\ event_core = EmptyFrame
    /\ occurrence_ext = EmptyFrame
    /\ occurrence_combined = EmptyFrame
    /\ measurement_or_fact = EmptyFrame
    /\ outputs = <<>>

\* Lines 15-17: the three sheets become the three data frames.
ReadExcel ==
    /\ pc = "read"
    /\ station_df' = workbook.Station
    /\ cpue_df' = workbook.CPUE
    /\ measurements_df' = workbook.Measurements
    /\ pc' = "cruise"
    /\ UNCHANGED <<workbook, error, cruise_event_df, station_events, event_core,
                   occurrence_ext, occurrence_combined, measurement_or_fact, outputs>>

Next ==
    \/ ReadExcel
    \/ BuildCruiseEvents
    \/ BuildStationEvents
    \/ BuildCpueOccurrences
    \/ BuildMeasurementOccurrences
    \/ ExtractMeasurements
    \/ WriteEvent
    \/ WriteOccurrence
    \/ WriteMeasurementOrFact

Spec == Init /\ [][Next]_vars

-----------------------------------------------------------------------------
(* What the claims speak of.                                               *)

\* The cruise events exist: the loop of lines 39-57 has ended without raising.
CruiseBuilt == pc \notin {"read", "cruise"} /\ error # "OverflowError"

\* The event core exists.
EventsBuilt ==
    pc \notin {"read", "cruise", "station"}
    /\ error \notin {"OverflowError", "IntCastingNaNError"}

\* The combined occurrences exist.
OccurrencesBuilt ==
    pc \in {"mof", "write_event", "write_occ", "write_mof", "done"} \/ error = "OSError"

\* The measurement-or-fact frame exists.
FactsBuilt == pc \in {"write_event", "write_occ", "write_mof", "done"} \/ error = "OSError"

\* The field of row i of a written file in the column col, blank when the file
\* has no such column.
Field(file, i, col) ==
    IF col \in Range(file.header) THEN file.rows[i][IndexOf(file.header, col)] ELSE ""

\* The cell of row i of a frame in the column col, nan when the frame lacks it.
Cell(df, i, col) == IF col \in Range(df.columns) THEN df.rows[i][col] ELSE NaN

\* The (cruise_id, type) pairs of the Station rows that have both.
KeyOf(row) == <<row.cruise_id, row.type>>

Keyed(rows) == SelectSeq(rows, LAMBDA r : notna(r.cruise_id) /\ notna(r.type))

StationKeys == {KeyOf(r) : r \in Range(Keyed(station_df.rows))}

\* "{int(cruise_id)}_{type}"
SyntheticID(cruise_id, type) == Txt(IntStr(cruise_id) \o "_" \o Str(type))

\* C1 (as claimed): every station event's parentEventID is "{int(cruise_id)}_{type}"
\* of its Station row, and exactly one cruise event has that eventID.
C1_ParentResolves ==
    EventsBuilt =>
        \A i \in DOMAIN station_df.rows :
            LET id == SyntheticID(station_df.rows[i].cruise_id, station_df.rows[i].type)
            IN  /\ station_events.rows[i].parentEventID = id
                /\ Cardinality({j \in DOMAIN cruise_event_df.rows :
                                   cruise_event_df.rows[j].eventID = id}) = 1

\* C2 (as claimed): no two rows of the combined occurrence table share an occurrenceID.
C2_OccurrenceIDsUnique ==
    OccurrencesBuilt =>
        \A i, j \in DOMAIN occurrence_combined.rows :
            i # j => occurrence_combined.rows[i].occurrenceID
                     # occurrence_combined.rows[j].occurrenceID

\* C3 (as claimed): every record of the written measurement-or-fact table has exactly
\* one of occurrenceID and eventID non-blank.
C3_ExactlyOneSubject ==
    MeasurementFile \in DOMAIN outputs =>
        LET file == outputs[MeasurementFile]
        IN  \A i \in DOMAIN file.rows :
                (Field(file, i, "occurrenceID") # "") # (Field(file, i, "eventID") # "")

\* The start pair and the end pair of a Station row.
Pairs(row) == <<<<row.lon_start, row.lat_start>>, <<row.lon_end, row.lat_end>>>>

\* The pairs of the group key that Keep admits, in Station row order.
Vertices(key, Keep(_, _)) ==
    Flatten([i \in DOMAIN station_df.rows |->
               IF KeyOf(station_df.rows[i]) = key
               THEN SelectSeq(Pairs(station_df.rows[i]), LAMBDA p : Keep(p[1], p[2]))
               ELSE <<>>])

Wkt(vertices) ==
    "LINESTRING ("
    \o Join([v \in DOMAIN vertices |-> Str(vertices[v][1]) \o " " \o Str(vertices[v][2])], ", ")
    \o ")"

\* Some cruise event of the group key has the footprint its admitted pairs give,
\* None when there are none.
FootprintIs(key, Keep(_, _)) ==
    LET vertices == Vertices(key, Keep)
    IN  \E j \in DOMAIN cruise_event_df.rows :
            /\ cruise_event_df.rows[j].eventID = SyntheticID(key[1], key[2])
            /\ cruise_event_df.rows[j].footprintWKT =
                  IF vertices = <<>> THEN None ELSE Txt(Wkt(vertices))

\* C4 (as claimed): each group's footprint lists, in row order, start before end, every
\* pair with at least one ordinate present, and is None when there is none.
C4_FootprintAnyOrdinate ==
    CruiseBuilt =>
        \A key \in StationKeys : FootprintIs(key, LAMBDA lon, lat : notna(lon) \/ notna(lat))

\* C4 (amended): each group's footprint lists, in row order, start before end, every
\* pair with both ordinates present, and is None when there is none.
C4_FootprintBothOrdinates ==
    CruiseBuilt =>
        /\ Len(cruise_event_df.rows) = Cardinality(StationKeys)
        /\ \A key \in StationKeys :
               FootprintIs(key, LAMBDA lon, lat : notna(lon) /\ notna(lat))

\* C4 witness: cruise events built from a station whose start has one ordinate missing
\* and whose end is whole.
C4_Witness ==
    /\ CruiseBuilt
    /\ \E r \in Range(station_df.rows) :
           /\ ~notna(r.lon_start) /\ notna(r.lat_start)
           /\ notna(r.lon_end) /\ notna(r.lat_end)
    /\ Len(station_df.rows) > 1

\* C5 (as claimed): a run that has ended has written all three tables or none.
C5_AllOrNothing ==
    pc \in {"done", "failed"} =>
        DOMAIN outputs \in {{}, {EventFile, OccurrenceFile, MeasurementFile}}

\* C6: in the written occurrence table the remark of every Measurements row is
\* "Barotrauma: {value}", the Notes text, the two joined by "; ", or blank, by which
\* of Barotrauma and Notes the row has.
C6_Remarks ==
    OccurrenceFile \in DOMAIN outputs =>
        \A i \in DOMAIN measurements_df.rows :
            LET row == measurements_df.rows[i]
                remark == Field(outputs[OccurrenceFile], Len(cpue_df.rows) + i,
                                "occurrenceRemarks")
            IN  /\ (notna(row.Barotrauma) /\ ~notna(row.Notes))
                      => remark = "Barotrauma: " \o Str(row.Barotrauma)
                /\ (~notna(row.Barotrauma) /\ notna(row.Notes)) => remark = Str(row.Notes)
                /\ (notna(row.Barotrauma) /\ notna(row.Notes))
                      => remark = "Barotrauma: " \o Str(row.Barotrauma) \o "; " \o Str(row.Notes)
                /\ (~notna(row.Barotrauma) /\ ~notna(row.Notes)) => remark = ""

\* C6 witness: the occurrence table is written with a blank remark for a Measurements
\* row with neither Barotrauma nor Notes.
C6_Witness ==
    /\ OccurrenceFile \in DOMAIN outputs
    /\ \E i \in DOMAIN measurements_df.rows :
           /\ ~notna(measurements_df.rows[i].Barotrauma)
           /\ ~notna(measurements_df.rows[i].Notes)
           /\ Field(outputs[OccurrenceFile], Len(cpue_df.rows) + i, "occurrenceRemarks") = ""

\* The rows of df and fields of a loop's table that give the type label a record.
Hits(df, fields, label) ==
    Cardinality({h \in (DOMAIN df.rows) \X (DOMAIN fields) :
                    /\ fields[h[2]].type = label
                    /\ notna(df.rows[h[1]][fields[h[2]].col])})

\* The fields of a row that are present.
PresentFields(row, fields) == {f \in DOMAIN fields : notna(row[fields[f].col])}

Labels ==
    {f.type : f \in Range(OrganismFields) \cup Range(StationFields)
                    \cup Range(GearFields) \cup Range(DistanceFields)}

\* The records of the measurement-or-fact frame that Is admits.
Facts(Is(_)) == {r \in DOMAIN measurement_or_fact.rows : Is(r)}

\* C7: the records of each type label are as many as the source rows whose field of
\* that label is present, so the records in all are as many as the present fields;
\* and each Measurements row has, under its occurrenceID, one record for each of its
\* present organism fields and none for a missing one.
C7_PresencePerField ==
    FactsBuilt =>
        /\ \A label \in Labels :
               Cardinality(Facts(LAMBDA r :
                   measurement_or_fact.rows[r].measurementType = Txt(label)))
               = Hits(measurements_df, OrganismFields, label)
                 + Hits(station_df, StationFields, label)
                 + Hits(cpue_df, GearFields, label)
                 + Hits(measurements_df, DistanceFields, label)
        /\ \A i \in DOMAIN measurements_df.rows :
               LET row == measurements_df.rows[i]
                   Mine(r) == Cell(measurement_or_fact, r, "occurrenceID") = row.occurrenceID
               IN  /\ Cardinality(Facts(Mine))
                      = Cardinality(PresentFields(row, OrganismFields))
                   /\ \A f \in DOMAIN OrganismFields :
                          notna(row[OrganismFields[f].col])
                          <=> \E r \in Facts(Mine) :
                                 measurement_or_fact.rows[r].measurementType
                                 = Txt(OrganismFields[f].type)

\* C7 witness: the facts are extracted from a Measurements row without TL_mm that has
\* its recorded weight.
C7_Witness ==
    /\ FactsBuilt
    /\ \E r \in Range(measurements_df.rows) : ~notna(r.TL_mm) /\ notna(r.Wt_g_recorded)

\* C8 (as claimed): the written event table has the eleven station event columns, in
\* the order given, and no other.
C8_EventColumns ==
    EventFile \in DOMAIN outputs =>
        outputs[EventFile].header
        = <<"eventID", "locationID", "parentEventID", "eventDate", "eventType",
            "decimalLatitude", "decimalLongitude", "minimumDepthInMeters",
            "maximumDepthInMeters", "eventRemarks", "recordedBy">>

\* C8 (amended): when a cruise event exists the written event table has twelve
\* columns, the five of the cruise events first, footprintWKT among them; with no
\* cruise event it has the eleven.
C8_EventColumnsWithFootprint ==
    EventFile \in DOMAIN outputs =>
        outputs[EventFile].header
        = IF StationKeys # {}
          THEN <<"eventID", "eventDate", "eventType", "parentEventID", "footprintWKT",
                 "locationID", "decimalLatitude", "decimalLongitude",
                 "minimumDepthInMeters", "maximumDepthInMeters", "eventRemarks",
                 "recordedBy">>
          ELSE <<"eventID", "locationID", "parentEventID", "eventDate", "eventType",
                 "decimalLatitude", "decimalLongitude", "minimumDepthInMeters",
                 "maximumDepthInMeters", "eventRemarks", "recordedBy">>

\* C8 witness: the event table is written with a cruise event in it.
C8_Witness ==
    /\ EventFile \in DOMAIN outputs
    /\ StationKeys # {}
    /\ Len(outputs[EventFile].rows) > Len(station_df.rows)

\* The event core is one cruise event per member of keys, in that order, and then one
\* station event per Station row, in row order.
EventOrderIs(keys) ==
    /\ Len(event_core.rows) = Len(keys) + Len(station_df.rows)
    /\ \A g \in DOMAIN keys :
           /\ event_core.rows[g].eventID = SyntheticID(keys[g][1], keys[g][2])
           /\ event_core.rows[g].eventType = Txt(Str(keys[g][2]) \o " cruise")
           /\ event_core.rows[g].parentEventID = None
    /\ \A i \in DOMAIN station_df.rows :
           /\ event_core.rows[Len(keys) + i].eventID = station_df.rows[i].station
           /\ event_core.rows[Len(keys) + i].eventType = station_df.rows[i].type
           /\ event_core.rows[Len(keys) + i].parentEventID
              = station_events.rows[i].parentEventID

\* The group keys in the order the Station rows first show them.
FirstSeenKeys ==
    Fresh([i \in DOMAIN Keyed(station_df.rows) |-> KeyOf(Keyed(station_df.rows)[i])], {})

\* Ascending order of group keys: by cruise_id, then "deployment" before "recovery".
Before(p, q) ==
    \/ p[1].t < q[1].t
    \/ p[1] = q[1] /\ p[2] = Txt("deployment") /\ q[2] = Txt("recovery")

AscendingKeys ==
    CHOOSE keys \in [1..Cardinality(StationKeys) -> StationKeys] :
        \A a, b \in DOMAIN keys : a < b => Before(keys[a], keys[b])

\* C9 (as claimed): the cruise events come first, one per group in the order the
\* groups were first seen, and the station events follow in row order.
C9_FirstSeenOrder == EventsBuilt => EventOrderIs(FirstSeenKeys)

\* C9 (amended): the cruise events come first, one per group in ascending order of
\* (cruise_id, type), and the station events follow in row order.
C9_AscendingOrder == EventsBuilt => EventOrderIs(AscendingKeys)

\* C9 witness: the event core is built from groups first seen out of ascending order.
C9_Witness ==
    /\ EventsBuilt
    /\ Cardinality(StationKeys) > 1
    /\ FirstSeenKeys # AscendingKeys

\* Some Station row of the workbook has a nan or inf cruise_id.
BadCruiseId == \E r \in Range(workbook.Station.rows) : r.cruise_id.k \in {"nan", "inf"}

\* C10: with a nan or inf cruise_id in the Station sheet the run writes no table,
\* builds no station event and no fact, and gets no further than the event builder:
\* its step from the building of the station events is the failure of the conversion.
C10_BadCruiseIdFails ==
    /\ [](BadCruiseId =>
            /\ DOMAIN outputs = {}
            /\ station_events = EmptyFrame
            /\ measurement_or_fact = EmptyFrame
            /\ pc \in {"read", "cruise", "station", "failed"}
            /\ pc = "failed" => error \in {"OverflowError", "IntCastingNaNError"})
    /\ [][BadCruiseId /\ pc = "station" => pc' = "failed"]_vars

\* C10 witness: the run has failed on a nan cruise_id, after the cruise events of the
\* other rows were built.
C10_Witness ==
    /\ pc = "failed"
    /\ error = "IntCastingNaNError"
    /\ \E r \in Range(station_df.rows) : r.cruise_id = NaN
    /\ cruise_event_df.rows # <<>>

====
